---- MODULE Spec2Model ----
(***************************************************************************)
(* Model of src/app.py, the Streamlit script of the solar ROI predictor.   *)
(*                                                                         *)
(* Streamlit re-executes the whole script on every user event.  One action *)
(* of this model is one complete execution of the script ("script run"):   *)
(* the session-state initialisation, the sidebar widgets, the button       *)
(* handler, the fetch/cache guard, the fetch, the calculation, the store   *)
(* or the failure branch, and the rendering.                               *)
(*                                                                         *)
(* Numbers.  Python floats are represented in fixed point:                 *)
(*   latitude, longitude     hundredths of a degree                        *)
(*   electricity_rate        cents per kWh                                 *)
(*   irradiance              tenths of kWh/m2/day                          *)
(*   money, energy           whole dollars, whole kWh                      *)
(*   payback_period_years    hundredths of a year                          *)
(*   roi_percent             tenths of a percent                           *)
(*   (1 - 0.005) ** year     multiples of 1/Scale                          *)
(*   "{:.1f}" output         tenths                                        *)
(*                                                                         *)
(* data/solar_data.py and models/roi_calculator.py are imported by app.py  *)
(* (lines 8-9) but are not part of the available source; get_solar_data    *)
(* and calculate_roi are modelled from sections 4.1 and 4.2 of the         *)
(* specification.                                                          *)
(***************************************************************************)
EXTENDS Integers, Sequences, FiniteSets, TLC

VARIABLES
    ss,       \* st.session_state
    widget,   \* the values held by the four sidebar widgets
    run,      \* what the most recent script run did and showed
    hist      \* history: fetch counter, last click, failure not yet retried

vars == <<ss, widget, run, hist>>

\* Python's None, and a session-state key that does not exist yet.
None == [none |-> TRUE]

(***************************************************************************)
(* Bounds of the model.                                                    *)
(***************************************************************************)
MaxFetches == 3

(***************************************************************************)
(* Sidebar widgets, lines 32-36.                                           *)
(***************************************************************************)
LatMin == -9000
LatMax == 9000
LonMin == -18000
LonMax == 18000
LatDefault == 3777
LonDefault == -12242
SizeMin == 10
SizeMax == 1000
SizeDefault == 100
RateMin == 5
RateMax == 30
RateDefault == 12

\* What the user types or drags to; some of it outside the widget's range.
TypedLatitudes == {LatDefault, 9500}
TypedLongitudes == {LonDefault, -18500}
DraggedSizes == {SizeDefault, SizeMin}
DraggedRates == {RateDefault, RateMin}

\* st.number_input / st.slider with min_value and max_value: the value the
\* script reads is always inside [lo, hi].
NumberInput(lo, hi, v) == IF v < lo THEN lo ELSE IF v > hi THEN hi ELSE v

Sidebar(lat, lon, size, rate) ==
    [ latitude         |-> NumberInput(LatMin, LatMax, lat),
      longitude        |-> NumberInput(LonMin, LonMax, lon),
      system_size      |-> NumberInput(SizeMin, SizeMax, size),
      electricity_rate |-> NumberInput(RateMin, RateMax, rate) ]

DefaultWidgets == Sidebar(LatDefault, LonDefault, SizeDefault, RateDefault)

(***************************************************************************)
(* Session state, lines 14-21.  The four parameter keys do not exist until *)
(* the first click.                                                        *)
(***************************************************************************)
InitSessionState ==
    [ analyzed         |-> FALSE,
      results          |-> None,
      solar_df         |-> None,
      avg_irradiance   |-> None,
      latitude         |-> None,
      longitude        |-> None,
      system_size      |-> None,
      electricity_rate |-> None ]

\* Lines 38-43: the 'Analyze Investment' button handler.
ButtonHandler(s, w) ==
    [s EXCEPT !.analyzed = TRUE,
              !.latitude = w.latitude,
              !.longitude = w.longitude,
              !.system_size = w.system_size,
              !.electricity_rate = w.electricity_rate]

\* Lines 57-61: the fetch/cache guard.
NeedFetch(s, w) ==
    \/ s.results = None
    \/ s.latitude # w.latitude
    \/ s.longitude # w.longitude
    \/ s.system_size # w.system_size
    \/ s.electricity_rate # w.electricity_rate

StartDate == 20230101
EndDate == 20231231

FetchArgsFromWidgets(s, w) ==
    [ latitude |-> w.latitude, longitude |-> w.longitude,
      start_date |-> StartDate, end_date |-> EndDate ]

\* Line 64: the arguments of get_solar_data.
FetchArgs(s, w) ==
    [ latitude |-> s.latitude, longitude |-> s.longitude,
      start_date |-> StartDate, end_date |-> EndDate ]

(***************************************************************************)
(* get_solar_data (specification 4.1): None, or a non-empty series of      *)
(* non-negative daily values.                                              *)
(***************************************************************************)
FetchOutcomes == {None, [series |-> <<50, 60>>], [series |-> <<0, 0>>]}

RECURSIVE SumSeq(_)
SumSeq(s) == IF s = <<>> THEN 0 ELSE Head(s) + SumSeq(Tail(s))

\* Line 67: solar_df['solar_irradiance'].mean()
Mean(series) == SumSeq(series) \div Len(series)

CalcArgsFromWidgets(s, w, avg) ==
    [ avg_irradiance |-> avg, system_size |-> w.system_size,
      electricity_rate |-> w.electricity_rate ]

\* Line 71: the arguments of calculate_roi.
CalcArgs(s, w, avg) ==
    [ avg_irradiance |-> avg, system_size |-> s.system_size,
      electricity_rate |-> s.electricity_rate ]

(***************************************************************************)
(* The 25-year projection.                                                 *)
(***************************************************************************)
Scale == 10000
DegradationPerMille == 5
LastYear == 25

\* (1 - 0.005) ** year, in multiples of 1/Scale.
RECURSIVE DegradationFactor(_)
DegradationFactor(year) ==
    IF year = 0 THEN Scale
    ELSE (DegradationFactor(year - 1) * (1000 - DegradationPerMille)) \div 1000

\* The factors of the years 0..25, computed once.
FactorTable == [year \in 0..LastYear |-> DegradationFactor(year)]

AnnualRevenueUndegraded(production, rate, year) == (production * rate) \div 100

\* Lines 153-157: annual_production_kwh * electricity_rate * (1 - 0.005) ** year
AnnualRevenue(production, rate, year) ==
    (((production * rate) \div 100) * FactorTable[year]) \div Scale

RECURSIVE CashLoop(_, _, _, _, _)
CashLoop(year, cash, cumulative_cash, production, rate) ==
    IF year > LastYear THEN cumulative_cash
    ELSE LET next_cash == cash + AnnualRevenue(production, rate, year)
         IN  CashLoop(year + 1, next_cash, Append(cumulative_cash, next_cash),
                      production, rate)

\* Lines 148-159: cumulative_cash for years 0..25.
CumulativeCash(results, rate) ==
    CashLoop(1, -results.total_investment, <<-results.total_investment>>,
             results.annual_production_kwh, rate)

(***************************************************************************)
(* SolarROICalculator.calculate_roi (specification 4.2).                   *)
(***************************************************************************)
CostPerKw == 2500
EfficiencyPercent == 80
DaysPerYear == 365
NoPayback == (LastYear + 1) * 100

\* The first year whose cumulative cash is not negative; 0 if there is none.
RECURSIVE CrossingYear(_, _)
CrossingYear(cash, year) ==
    IF year > LastYear THEN 0
    ELSE IF cash[year + 1] >= 0 THEN year
    ELSE CrossingYear(cash, year + 1)

Payback(cash) ==
    LET y == CrossingYear(cash, 1)
    IN  IF y = 0 THEN NoPayback
        ELSE (y - 1) * 100 + ((-cash[y]) * 100) \div (cash[y + 1] - cash[y])

calculate_roi(args) ==
    LET production == (args.avg_irradiance * DaysPerYear * args.system_size
                         * EfficiencyPercent) \div 1000
        investment == args.system_size * CostPerKw
        cash == CashLoop(1, -investment, <<-investment>>, production,
                         args.electricity_rate)
        net  == cash[LastYear + 1]
    IN  [ annual_production_kwh |-> production,
          total_investment      |-> investment,
          net_profit            |-> net,
          roi_percent           |-> (net * 1000) \div investment,
          payback_period_years  |-> Payback(cash) ]

(***************************************************************************)
(* Storing, failing, rendering: lines 66-100 and 134-225.                  *)
(*                                                                         *)
(* Each stored value carries the number of the get_solar_data call that    *)
(* produced it (fetch), and the results record also carries the parameters *)
(* it was computed from (computed_from).  These tags are history, not      *)
(* program data: the script never reads them.                              *)
(***************************************************************************)
Params(lat, lon, size, rate) ==
    [ latitude |-> lat, longitude |-> lon,
      system_size |-> size, electricity_rate |-> rate ]

StoredParams(s) ==
    Params(s.latitude, s.longitude, s.system_size, s.electricity_rate)

Tagged(r, id, fargs, cargs) ==
    [ annual_production_kwh |-> r.annual_production_kwh,
      total_investment      |-> r.total_investment,
      net_profit            |-> r.net_profit,
      roi_percent           |-> r.roi_percent,
      payback_period_years  |-> r.payback_period_years,
      fetch                 |-> id,
      computed_from         |-> Params(fargs.latitude, fargs.longitude,
                                       cargs.system_size, cargs.electricity_rate) ]

StoreResultsOnly(s, solar_df, avg_irradiance, results) ==
    [s EXCEPT !.results = results]

\* Lines 74-76.
StoreResults(s, solar_df, avg_irradiance, results) ==
    [s EXCEPT !.solar_df = solar_df,
              !.avg_irradiance = avg_irradiance,
              !.results = results]

FailureKeepsAnalyzed(s) == s

\* Lines 78-79 (the banner is recorded in run.error).
FailureBranch(s) == [s EXCEPT !.analyzed = FALSE]

\* Line 82.
ShowResults(s) == s.results # None

\* "{:.1f}".format(x) for x in hundredths: the nearest tenth.
Format1f(x) == (x + 5) \div 10

\* Lines 97-100: the 'Payback Period' metric.
PaybackMetric(results) == Format1f(results.payback_period_years)

\* Lines 189-190: "You'll break even in year {breakeven_year:.1f}."
BreakEvenMessage(results) == Format1f(results.payback_period_years)

\* Lines 83-225: what is on the page when results are displayed.
Render(s) ==
    [ roi_percent       |-> s.results.roi_percent,
      payback_metric    |-> PaybackMetric(s.results),
      annual_production |-> s.results.annual_production_kwh,
      total_investment  |-> s.results.total_investment,
      net_profit        |-> s.results.net_profit,
      avg_irradiance    |-> s.avg_irradiance,
      chart             |-> s.solar_df,
      file_name         |-> <<s.latitude, s.longitude>>,
      chart_rate        |-> s.electricity_rate,
      cumulative_cash   |-> CumulativeCash(s.results, s.electricity_rate),
      break_even        |-> BreakEvenMessage(s.results),
      map_marker        |-> <<s.latitude, s.longitude>> ]

(***************************************************************************)
(* One execution of the script, lines 14-250.                              *)
(*   w        the widget values read at lines 32-36                        *)
(*   clicked  the value of st.button at line 38                            *)
(*   outcome  what get_solar_data returns if line 64 is reached            *)
(***************************************************************************)
ScriptRun(w, clicked, outcome) ==
    LET s1      == IF clicked THEN ButtonHandler(ss, w) ELSE ss
        entered == s1.analyzed                              \* line 55
        fetch   == entered /\ NeedFetch(s1, w)              \* lines 57-61
        id      == hist.fetches + 1
        fargs   == FetchArgs(s1, w)
        ok      == fetch /\ outcome # None                  \* line 66
        failed  == fetch /\ outcome = None                  \* line 77
        avg     == Mean(outcome.series)
        cargs   == CalcArgs(s1, w, avg)
        res     == Tagged(calculate_roi(cargs), id, fargs, cargs)
        s2      == IF ok
                   THEN StoreResults(s1, [series |-> outcome.series, fetch |-> id],
                                     [value |-> avg, fetch |-> id], res)
                   ELSE IF failed THEN FailureBranch(s1)
                   ELSE s1
        shown   == entered /\ ShowResults(s2)               \* line 82
    IN  /\ fetch => hist.fetches < MaxFetches
        /\ widget' = w
        /\ ss' = s2
        /\ run' = [ clicked        |-> clicked,
                    after_failure  |-> hist.failure_pending,
                    results_before |-> ss.results,
                    fetches        |-> IF fetch THEN <<fargs>> ELSE <<>>,
                    fetch_failed   |-> failed,
                    calcs          |-> IF ok THEN <<cargs>> ELSE <<>>,
                    fetched        |-> IF ok THEN outcome ELSE None,
                    error          |-> failed,              \* line 78
                    success        |-> shown,               \* line 87
                    welcome        |-> ~entered,            \* line 229
                    view           |-> IF shown THEN Render(s2) ELSE None ]
        /\ hist' = [ fetches         |-> IF fetch THEN id ELSE hist.fetches,
                     click           |-> IF clicked
                                         THEN <<w.latitude, w.longitude>>
                                         ELSE hist.click,
                     failure_pending |-> IF failed THEN TRUE
                                         ELSE IF clicked THEN FALSE
                                         ELSE hist.failure_pending ]

\* The page is loaded: the first run of the script in a new session.
Init ==
    /\ ss = InitSessionState
    /\ widget = DefaultWidgets
    /\ run = [ clicked |-> FALSE, after_failure |-> FALSE,
               results_before |-> None, fetches |-> <<>>,
               fetch_failed |-> FALSE, calcs |-> <<>>, fetched |-> None,
               error |-> FALSE, success |-> FALSE, welcome |-> TRUE,
               view |-> None ]
    /\ hist = [ fetches |-> 0, click |-> None, failure_pending |-> FALSE ]

\* The user changes one sidebar widget; Streamlit reruns the script.
ChangeLatitude ==
    \E lat \in TypedLatitudes, outcome \in FetchOutcomes :
        LET v == NumberInput(LatMin, LatMax, lat)
        IN  /\ v # widget.latitude
            /\ ScriptRun([widget EXCEPT !.latitude = v], FALSE, outcome)

ChangeLongitude ==
    \E lon \in TypedLongitudes, outcome \in FetchOutcomes :
        LET v == NumberInput(LonMin, LonMax, lon)
        IN  /\ v # widget.longitude
            /\ ScriptRun([widget EXCEPT !.longitude = v], FALSE, outcome)

ChangeSystemSize ==
    \E size \in DraggedSizes, outcome \in FetchOutcomes :
        LET v == NumberInput(SizeMin, SizeMax, size)
        IN  /\ v # widget.system_size
            /\ ScriptRun([widget EXCEPT !.system_size = v], FALSE, outcome)

ChangeElectricityRate ==
    \E rate \in DraggedRates, outcome \in FetchOutcomes :
        LET v == NumberInput(RateMin, RateMax, rate)
        IN  /\ v # widget.electricity_rate
            /\ ScriptRun([widget EXCEPT !.electricity_rate = v], FALSE, outcome)

\* The user clicks 'Analyze Investment'; Streamlit reruns the script.
ClickAnalyze ==
    \E outcome \in FetchOutcomes : ScriptRun(widget, TRUE, outcome)

\* Any other rerun (the download button, the map component, a reload of
\* the script) with the widgets as they are.
Rerun ==
    \E outcome \in FetchOutcomes : ScriptRun(widget, FALSE, outcome)

Next ==
    \/ ChangeLatitude
    \/ ChangeLongitude
    \/ ChangeSystemSize
    \/ ChangeElectricityRate
    \/ ClickAnalyze
    \/ Rerun

Spec == Init /\ [][Next]_vars

(***************************************************************************)
(* Properties.                                                             *)
(***************************************************************************)

\* C1: whenever an ROI result is displayed, it was computed from exactly
\* the (latitude, longitude, system_size, electricity_rate) held in session
\* state, which are also the map marker, the file name and the chart's rate.
C1_DisplayedResultMatchesInputs ==
    run.success =>
        /\ ss.results.computed_from = StoredParams(ss)
        /\ run.view.map_marker =
             <<ss.results.computed_from.latitude,
               ss.results.computed_from.longitude>>
        /\ run.view.file_name = run.view.map_marker
        /\ run.view.chart_rate = ss.results.computed_from.electricity_rate

\* C2: at the end of every script run results, solar_df and avg_irradiance
\* are all None, or all set by the same fetch-and-calculate step.
C2_AllOrNothing ==
    \/ /\ ss.results = None
       /\ ss.solar_df = None
       /\ ss.avg_irradiance = None
    \/ /\ ss.results # None
       /\ ss.solar_df # None
       /\ ss.avg_irradiance # None
       /\ ss.results.fetch = ss.solar_df.fetch
       /\ ss.results.fetch = ss.avg_irradiance.fetch

\* C2 witness: a second successful fetch has replaced all three values.
C2_Witness ==
    /\ ss.results # None
    /\ ss.results.fetch >= 2
    /\ run.calcs # <<>>
    /\ run.results_before # None

\* C3: in a run in which get_solar_data returns None the error banner is
\* shown and no result is presented as a completed analysis.
C3_FailureNotHidden ==
    run.fetch_failed => run.error /\ ~run.success

\* C4: a run never fetches for a stored parameter tuple whose result is
\* already held; when it fetches because the parameters changed, it fetches
\* for the changed parameters.
C4_NoRedundantFetch ==
    run.fetches # <<>> =>
        /\ \/ run.results_before = None
           \/ run.results_before.computed_from # StoredParams(ss)
        /\ run.fetches[1].latitude = widget.latitude
        /\ run.fetches[1].longitude = widget.longitude

\* C5: after a run in which the fetch failed, the next click on 'Analyze
\* Investment' issues a new fetch for the parameters then entered.
C5_RetryAfterFailure ==
    run.clicked /\ run.after_failure =>
        /\ Len(run.fetches) = 1
        /\ run.fetches[1].latitude = widget.latitude
        /\ run.fetches[1].longitude = widget.longitude

\* C6: a run issues at most one call to get_solar_data, and after a failed
\* fetch a run without a click issues none: analyzed stays False and the
\* welcome screen is shown.
C6_NoAutomaticRetry ==
    /\ Len(run.fetches) <= 1
    /\ run.after_failure /\ ~run.clicked =>
           /\ run.fetches = <<>>
           /\ ~ss.analyzed
           /\ run.welcome
           /\ ~run.error

\* C6 witness: a run without a click after a failed fetch, with the widgets
\* away from the stored parameters.
C6_Witness ==
    /\ run.after_failure
    /\ ~run.clicked
    /\ StoredParams(ss) # widget

NeverReachesZero(cash) == \A i \in 1..Len(cash) : cash[i] < 0

\* C7: if the cumulative cash of the projection never reaches zero within
\* the 25 years, the payback period shown is a beyond-horizon signal and
\* the page names no break-even year within the horizon.
C7_NoPaybackIsSignalled ==
    run.success /\ NeverReachesZero(run.view.cumulative_cash) =>
        /\ run.view.payback_metric > LastYear * 10
        /\ run.view.break_even > LastYear * 10

\* C8: calculate_roi is called at most once per run, only after
\* get_solar_data returned a series in that run, with the mean of that
\* series and the stored system_size and electricity_rate; in a run whose
\* fetch failed or was skipped it is not called and results are unchanged.
C8_ProviderThenCalculator ==
    /\ Len(run.calcs) <= 1
    /\ run.calcs # <<>> =>
           /\ Len(run.fetches) = 1
           /\ ~run.fetch_failed
           /\ run.fetched # None
           /\ LET series == run.fetched.series
                  avg    == run.calcs[1].avg_irradiance
              IN  /\ avg * Len(series) <= SumSeq(series)
                  /\ SumSeq(series) < (avg + 1) * Len(series)
           /\ run.calcs[1].system_size = ss.system_size
           /\ run.calcs[1].electricity_rate = ss.electricity_rate
    /\ run.fetches = <<>> \/ run.fetch_failed =>
           /\ run.calcs = <<>>
           /\ ss.results = run.results_before

\* C8 witness: a calculation in a run whose widgets differ from the stored
\* system size or rate.
C8_Witness ==
    /\ run.calcs # <<>>
    /\ \/ widget.system_size # ss.system_size
       \/ widget.electricity_rate # ss.electricity_rate

\* C9: every fetch uses the coordinates captured at the most recent click,
\* inside [-90, 90] x [-180, 180], for 2023-01-01 to 2023-12-31.
C9_FetchUsesClickedCoordinates ==
    \A i \in 1..Len(run.fetches) :
        /\ hist.click # None
        /\ run.fetches[i].latitude = hist.click[1]
        /\ run.fetches[i].longitude = hist.click[2]
        /\ run.fetches[i].latitude \in -9000..9000
        /\ run.fetches[i].longitude \in -18000..18000
        /\ run.fetches[i].start_date = 20230101
        /\ run.fetches[i].end_date = 20231231
        /\ run.fetches[i].start_date <= run.fetches[i].end_date

\* C9 witness: a fetch in a run whose live coordinates differ from the
\* ones fetched.
C9_Witness ==
    /\ run.fetches # <<>>
    /\ \/ run.fetches[1].latitude # widget.latitude
       \/ run.fetches[1].longitude # widget.longitude

\* C10: the cumulative-cash sequence has 26 entries, starts at
\* -total_investment, grows each year y by
\* annual_production_kwh * electricity_rate * (1 - 0.005)^y, is
\* non-decreasing, and with zero production stays at -total_investment.
C10_CashFlowFormula ==
    run.success =>
        LET cash == run.view.cumulative_cash
            prod == run.view.annual_production
            rate == run.view.chart_rate
            inv  == run.view.total_investment
        IN  /\ Len(cash) = 26
            /\ cash[1] = -inv
            /\ \A y \in 1..25 :
                   /\ cash[y + 1] = cash[y]
                        + (((prod * rate) \div 100) * FactorTable[y]) \div Scale
                   /\ cash[y + 1] >= cash[y]
            /\ prod = 0 =>
                   \A i \in 1..26 : cash[i] = -inv /\ cash[i] < 0

\* C10 witness: a displayed projection that grows and crosses zero.
C10_Witness ==
    /\ run.success
    /\ run.view.annual_production > 0
    /\ run.view.cumulative_cash[1] < 0
    /\ run.view.cumulative_cash[26] > 0

====
